---- MODULE Spec2Model ----
(***************************************************************************)
(* USFConcierge: the chat persistence gateway (utils/database.py), the LLM *)
(* client adapter (utils/azure_llm.py) and the session-state operations    *)
(* (utils/state_manager.py) as state machines.                             *)
(*                                                                         *)
(* Spec     : ChatDatabase against a remote store, one caller at a time;   *)
(*            every store call may raise.                                  *)
(* SpecConc : ChatDatabase called from two threads at once, with log_event *)
(*            and the background threads it starts.                        *)
(* SpecLLM  : one stream_chat and one complete_chat call, from two calling *)
(*            contexts, against the provider, whose answers and faults are *)
(*            drawn at each request.                                       *)
(* SpecText : _content_to_text applied to every content value in bounds.   *)
(* SpecAll  : Spec with get_total_message_count, search_sessions and       *)
(*            export_session_json.                                         *)
(* SpecRead : those three calls on every small store, with names, contents *)
(*            and queries over the pattern operator's special characters.  *)
(* SpecAudit: SpecConc in a process that goes on running: every background *)
(*            thread that was started takes its steps.                     *)
(* SpecUI   : activate_assistant, queue_action_collapse,                   *)
(*            handle_pending_action_collapses, maybe_auto_open_assistant   *)
(*            on the session state initialize_session_state leaves.        *)
(***************************************************************************)
EXTENDS Integers, Sequences, FiniteSets, TLC

(***************************************************************************)
(* Bounds of the model.                                                    *)
(***************************************************************************)
\* datetime.utcnow() truncated to whole seconds takes the values 0..MaxClock
MaxClock == 1
\* add_message is begun at most MaxMessages times in one behaviour
MaxMessages == 2
\* a content list holds at most MaxParts parts
MaxParts == 3
\* a streamed response delivers at most MaxEvents events
MaxEvents == 2
\* names, contents and queries of SpecRead hold at most MaxStrLen characters
MaxStrLen == 2
\* get_total_message_count, search_sessions and export_session_json are begun at
\* most MaxQueries times in one behaviour
MaxQueries == 1
\* log_event starts at most MaxAudit background threads in one behaviour
MaxAudit == 1
\* queue_action_collapse is called at most MaxQueued times in one behaviour
MaxQueued == 6

Threads == {"t1", "t2"}
Users == {"u1", "u2"}
Names == {<<"a">>, <<"A", "%">>}
\* content= values add_message is called with
Contents == {<<"a", "_">>}
\* query= values search_sessions is called with beside those of SpecRead
SeqQueries == {<<>>, <<"a">>, <<"%">>}
\* the values uuid.uuid4() can still hand out for sessions
SessionIds == {"s1", "s2"}

\* Spec: one caller at a time, every session, user and name
SeqThreads == {"t1"}
\* SpecConc: two callers at once on one session of one user
ConcSessionIds == {"s1"}
ConcUsers == {"u1"}

VARIABLES
    clock,      \* the wall clock, in whole seconds (timespec="seconds")
    sessions,   \* chat_sessions table: id -> row
    messages,   \* messages table: rows in physical insertion order
    issued,     \* session ids that were ever stored (uuid4 gives none of them again)
    nextMid,    \* number of message ids uuid4 has handed out
    call,       \* per thread: the ChatDatabase call in progress
    lastRet,    \* what the step just taken returned to its caller, if it returned
    raced,      \* history: sessions on which two calls ever overlapped
    stale,      \* history: sessions whose add_message lost its second write
    queried     \* number of calls of several selects begun so far

VARIABLES
    audit_table,  \* self._audit_table is a non-empty name
    audit,        \* audit_logs table: the rows written
    writers,      \* the background threads log_event started that have not ended
    logged,       \* number of background threads log_event has started
    enqueued,     \* history: the arguments of the log_event calls that started a thread
    audit_errors  \* the threads whose failure _log_in_background has logged

auditVars == <<audit_table, audit, writers, logged, enqueued, audit_errors>>

dbVars == <<clock, sessions, messages, issued, nextMid, call, lastRet, raced, stale, queried,
            auditVars>>

VARIABLES
    env_ok,     \* AZURE_OPENAI_ENDPOINT and AZURE_OPENAI_API_KEY are set
    client,     \* the lru_cache of get_azure_client: 0 when empty, else the client cached
    built,      \* number of clients constructed so far; the n-th client is n
    stream,     \* the stream_chat generator: position, locals, fragments yielded, error raised
    complete    \* the complete_chat call: position, locals, value returned, error raised

llmVars == <<env_ok, client, built, stream, complete>>

VARIABLES
    content,    \* the argument of _content_to_text
    normalized  \* its return value, once it returned

textVars == <<content, normalized>>

VARIABLES
    show_tool_picker,          \* st.session_state.show_tool_picker
    show_email_builder,        \* st.session_state.show_email_builder
    show_meeting_builder,      \* st.session_state.show_meeting_builder
    recent_actions,            \* st.session_state.recent_actions
    pending_action_collapses,  \* st.session_state.pending_action_collapses
    queued                     \* number of queue_action_collapse calls so far

uiVars == <<show_tool_picker, show_email_builder, show_meeting_builder,
            recent_actions, pending_action_collapses, queued>>

vars == <<dbVars, llmVars, textVars, uiVars>>

(***************************************************************************)
(* Return values.  None, a bool, an id, one row, or a list of rows.        *)
(***************************************************************************)
None == [kind |-> "none"]
Bool(b) == [kind |-> "bool", val |-> b]
Id(i) == [kind |-> "id", val |-> i]
Row(r) == [kind |-> "row", val |-> r]
Rows(rs) == [kind |-> "rows", val |-> rs]
\* an exception leaving the call instead of a value
Raised == [kind |-> "raised"]

Idle == [op |-> "idle", sid |-> ""]
NoReturn == [of |-> "", by |-> "", sid |-> "", ret |-> None, store_raised |-> FALSE]

InFlight(t) == call[t].op # "idle"
AllReturned == \A t \in Threads : ~InFlight(t)

\* threads other than t that are inside a call on session sid
Others(t, sid) == {u \in Threads \ {t} : InFlight(u) /\ call[u].sid = sid}

\* thread t enters call c; a session on which it overlaps another call is recorded
Enter(t, c) ==
    /\ call' = [call EXCEPT ![t] = c]
    /\ raced' = IF Others(t, c.sid) # {} THEN raced \cup {c.sid} ELSE raced
    /\ lastRet' = NoReturn

\* thread t returns v from the call it is in
Return(t, v) ==
    /\ call' = [call EXCEPT ![t] = Idle]
    /\ lastRet' = [of |-> call[t].op, by |-> t, sid |-> call[t].sid, ret |-> v,
                   store_raised |-> FALSE]

\* thread t returns v from the except clause of the call it is in
ReturnFailed(t, v) ==
    /\ call' = [call EXCEPT ![t] = Idle]
    /\ lastRet' = [of |-> call[t].op, by |-> t, sid |-> call[t].sid, ret |-> v,
                   store_raised |-> TRUE]

\* thread t calls and returns in one step (a call of a single store request)
Answer(t, o, sid, v) ==
    /\ lastRet' = [of |-> o, by |-> t, sid |-> sid, ret |-> v, store_raised |-> FALSE]
    /\ UNCHANGED call

\* the same, returning from the except clause
AnswerFailed(t, o, sid, v) ==
    /\ lastRet' = [of |-> o, by |-> t, sid |-> sid, ret |-> v, store_raised |-> TRUE]
    /\ UNCHANGED call

(***************************************************************************)
(* The store's tables.                                                     *)
(***************************************************************************)
Exists(sid) == sid \in DOMAIN sessions

\* ids a caller can hold: create_session returned them or get_user_sessions lists them
Known == issued

PutSession(sid, row) == [s \in DOMAIN sessions \cup {sid} |-> IF s = sid THEN row ELSE sessions[s]]
DropSession(sid) == [s \in DOMAIN sessions \ {sid} |-> sessions[s]]

MessagesOf(sid) == SelectSeq(messages, LAMBDA m : m.session_id = sid)

\* the sequences over the elements of set S, each once
RECURSIVE Perms(_)
Perms(S) ==
    IF S = {} THEN {<<>>}
    ELSE UNION {{<<x>> \o p : p \in Perms(S \ {x})} : x \in S}

\* .order(col): every order of the rows that is sorted by Key; rows of equal key
\* come back in an order the store chooses
Ordered(rows, col, desc) ==
    LET n == Len(rows)
        ok(p) == \A i \in 1..(n - 1) :
                    IF desc THEN rows[p[i]][col] >= rows[p[i + 1]][col]
                    ELSE rows[p[i]][col] <= rows[p[i + 1]][col]
    IN {[i \in 1..n |-> rows[p[i]]] : p \in {q \in Perms(1..n) : ok(q)}}

\* a finite set's elements as some sequence
RECURSIVE SeqOf(_)
SeqOf(S) == IF S = {} THEN <<>> ELSE LET x == CHOOSE y \in S : TRUE IN <<x>> \o SeqOf(S \ {x})

(***************************************************************************)
(* Read operations: what a call answers in the current state.              *)
(***************************************************************************)
\* get_session: data[0] if data else None
GetSessionResult(sid) == IF Exists(sid) THEN Row(sessions[sid]) ELSE None

\* get_session_messages: .eq("session_id", sid).order("created_at", desc=False)
GetSessionMessagesResults(sid) == {Rows(r) : r \in Ordered(MessagesOf(sid), "created_at", FALSE)}

\* get_user_sessions: .eq("user_id", u).order("updated_at", desc=True)
UserSessionRows(u) == SeqOf({sessions[s] : s \in {x \in DOMAIN sessions : sessions[x].user_id = u}})
GetUserSessionsResults(u) == {Rows(r) : r \in Ordered(UserSessionRows(u), "updated_at", TRUE)}

(***************************************************************************)
(* The clock.                                                              *)
(***************************************************************************)
Tick ==
    /\ clock < MaxClock
    /\ clock' = clock + 1
    /\ lastRet' = NoReturn
    /\ UNCHANGED <<sessions, messages, issued, nextMid, call, raced, stale>>
    /\ UNCHANGED <<queried, auditVars, llmVars, textVars, uiVars>>

(***************************************************************************)
(* create_session.  The id is fresh, so no other call can name the session *)
(* before the insert: the whole call is one step.                          *)
(***************************************************************************)
CreateSession(t, sid, u, n) ==
    LET row == [id |-> sid, user_id |-> u, session_name |-> n,
                created_at |-> clock, updated_at |-> clock]
    IN
    /\ ~InFlight(t)
    /\ sid \notin issued
    \* the insert answers with the row, answers without data, or raises
    /\ \/ /\ sessions' = PutSession(sid, row)
          /\ issued' = issued \cup {sid}
          /\ \E data \in BOOLEAN :
                Answer(t, "create_session", sid, IF data THEN Id(sid) ELSE None)
       \/ /\ UNCHANGED <<sessions, issued>>
          /\ AnswerFailed(t, "create_session", sid, None)
    /\ UNCHANGED <<clock, messages, nextMid, raced, stale>>
    /\ UNCHANGED <<queried, auditVars, llmVars, textVars, uiVars>>

(***************************************************************************)
(* rename_session                                                          *)
(***************************************************************************)
\* line 83: the timestamp is taken before the store is called
BeginRenameSession(t, sid, n) ==
    /\ ~InFlight(t)
    /\ sid \in Known
    /\ Enter(t, [op |-> "rename_session", pc |-> "update", sid |-> sid, name |-> n,
                 now |-> clock])
    /\ UNCHANGED <<clock, sessions, messages, issued, nextMid, stale>>
    /\ UNCHANGED <<queried, auditVars, llmVars, textVars, uiVars>>

\* lines 84-91
RenameSessionUpdate(t) ==
    LET c == call[t] IN
    /\ c.op = "rename_session"
    /\ \/ /\ sessions' = IF Exists(c.sid)
                         THEN [sessions EXCEPT ![c.sid].session_name = c.name,
                                               ![c.sid].updated_at = c.now]
                         ELSE sessions
          /\ Return(t, Bool(TRUE))
       \/ /\ UNCHANGED sessions
          /\ ReturnFailed(t, Bool(FALSE))
    /\ UNCHANGED <<clock, messages, issued, nextMid, raced, stale>>
    /\ UNCHANGED <<queried, auditVars, llmVars, textVars, uiVars>>

(***************************************************************************)
(* delete_session                                                          *)
(***************************************************************************)
\* delete_session that goes straight to the session row
DeleteSessionKeepingMessages(t, sid) ==
    /\ ~InFlight(t)
    /\ sid \in Known
    /\ Enter(t, [op |-> "delete_session", pc |-> "delete_session", sid |-> sid])
    /\ UNCHANGED <<clock, sessions, messages, issued, nextMid, stale>>
    /\ UNCHANGED <<queried, auditVars, llmVars, textVars, uiVars>>

\* delete_session with its two deletes in the other order: the session row first
DeleteSessionRowFirst(t, sid) ==
    /\ ~InFlight(t)
    /\ sid \in Known
    /\ \/ /\ sessions' = DropSession(sid)
          /\ Enter(t, [op |-> "delete_session", pc |-> "delete_session", sid |-> sid])
       \/ /\ UNCHANGED <<sessions, raced>>
          /\ AnswerFailed(t, "delete_session", sid, None)
    /\ UNCHANGED <<clock, messages, issued, nextMid, stale>>
    /\ UNCHANGED <<queried, auditVars, llmVars, textVars, uiVars>>

\* delete_session with a try block of its own around each delete: a failed
\* messages delete is logged and the session delete follows
DeleteSessionMessagesSwallowed(t, sid) ==
    /\ ~InFlight(t)
    /\ sid \in Known
    /\ \/ messages' = SelectSeq(messages, LAMBDA m : m.session_id # sid)
       \/ UNCHANGED messages
    /\ Enter(t, [op |-> "delete_session", pc |-> "delete_session", sid |-> sid])
    /\ UNCHANGED <<clock, sessions, issued, nextMid, stale>>
    /\ UNCHANGED <<queried, auditVars, llmVars, textVars, uiVars>>

\* line 95: the first delete; if it raises the call logs and returns
DeleteSessionMessages(t, sid) ==
    /\ ~InFlight(t)
    /\ sid \in Known
    /\ \/ /\ messages' = SelectSeq(messages, LAMBDA m : m.session_id # sid)
          /\ Enter(t, [op |-> "delete_session", pc |-> "delete_session", sid |-> sid])
       \/ /\ UNCHANGED <<messages, raced>>
          /\ AnswerFailed(t, "delete_session", sid, None)
    /\ UNCHANGED <<clock, sessions, issued, nextMid, stale>>
    /\ UNCHANGED <<queried, auditVars, llmVars, textVars, uiVars>>

\* delete_session that takes the session's audit rows along
DeleteSessionRowOkCascading(t) ==
    /\ call[t].op = "delete_session"
    /\ sessions' = DropSession(call[t].sid)
    /\ audit' = {r \in audit : r.session_id # call[t].sid}
    /\ Return(t, None)
    /\ UNCHANGED <<clock, messages, issued, nextMid, raced, stale>>
    /\ UNCHANGED <<queried, audit_table, writers, logged, enqueued, audit_errors>>
    /\ UNCHANGED <<llmVars, textVars, uiVars>>

\* line 96: the second delete goes through
DeleteSessionRowOk(t) ==
    /\ call[t].op = "delete_session"
    /\ sessions' = DropSession(call[t].sid)
    /\ Return(t, None)
    /\ UNCHANGED <<clock, messages, issued, nextMid, raced, stale>>
    /\ UNCHANGED <<queried, auditVars, llmVars, textVars, uiVars>>

\* delete_session whose second delete is outside the try block
DeleteSessionRowRaises(t) ==
    /\ call[t].op = "delete_session"
    /\ ReturnFailed(t, Raised)
    /\ UNCHANGED <<clock, sessions, messages, issued, nextMid, raced, stale>>
    /\ UNCHANGED <<queried, auditVars, llmVars, textVars, uiVars>>

\* lines 96-99: the second delete raises; the call logs and returns
DeleteSessionRowFail(t) ==
    /\ call[t].op = "delete_session"
    /\ ReturnFailed(t, None)
    /\ UNCHANGED <<clock, sessions, messages, issued, nextMid, raced, stale>>
    /\ UNCHANGED <<queried, auditVars, llmVars, textVars, uiVars>>

DeleteSessionRow(t) == DeleteSessionRowOk(t) \/ DeleteSessionRowFail(t)

(***************************************************************************)
(* add_message                                                             *)
(***************************************************************************)
\* lines 124-134: the id and the timestamp are taken before the store is called
BeginAddMessage(t, sid, text) ==
    /\ ~InFlight(t)
    /\ sid \in Known
    /\ nextMid < MaxMessages
    /\ nextMid' = nextMid + 1
    /\ Enter(t, [op |-> "add_message", pc |-> "insert", sid |-> sid,
                 mid |-> nextMid + 1, content |-> text, now |-> clock])
    /\ UNCHANGED <<clock, sessions, messages, issued, stale>>
    /\ UNCHANGED <<queried, auditVars, llmVars, textVars, uiVars>>

\* add_message that catches a failed insert by itself and goes on to the second write
AddMessageInsertSwallowed(t) ==
    LET c == call[t]
        row == [id |-> c.mid, session_id |-> c.sid, content |-> c.content,
                created_at |-> c.now]
    IN
    /\ c.op = "add_message" /\ c.pc = "insert"
    /\ \/ messages' = Append(messages, row)
       \/ UNCHANGED messages
    /\ call' = [call EXCEPT ![t].pc = "touch"]
    /\ lastRet' = NoReturn
    /\ UNCHANGED <<clock, sessions, issued, nextMid, raced, stale>>
    /\ UNCHANGED <<queried, auditVars, llmVars, textVars, uiVars>>

\* line 136
AddMessageInsert(t) ==
    LET c == call[t]
        row == [id |-> c.mid, session_id |-> c.sid, content |-> c.content,
                created_at |-> c.now]
    IN
    /\ c.op = "add_message" /\ c.pc = "insert"
    /\ \/ /\ messages' = Append(messages, row)
          /\ call' = [call EXCEPT ![t].pc = "touch"]
          /\ lastRet' = NoReturn
       \/ /\ UNCHANGED messages
          /\ ReturnFailed(t, None)
    /\ UNCHANGED <<clock, sessions, issued, nextMid, raced, stale>>
    /\ UNCHANGED <<queried, auditVars, llmVars, textVars, uiVars>>

\* add_message that returns the id without the second write
AddMessageTouchSkipped(t) ==
    /\ call[t].op = "add_message" /\ call[t].pc = "touch"
    /\ Return(t, Id(call[t].mid))
    /\ UNCHANGED <<clock, sessions, messages, issued, nextMid, raced, stale>>
    /\ UNCHANGED <<queried, auditVars, llmVars, textVars, uiVars>>

\* add_message that reads the clock again for the second write
AddMessageTouchNewStamp(t) ==
    LET c == call[t] IN
    /\ c.op = "add_message" /\ c.pc = "touch"
    /\ \/ /\ sessions' = IF Exists(c.sid)
                         THEN [sessions EXCEPT ![c.sid].updated_at = clock]
                         ELSE sessions
          /\ Return(t, Id(c.mid))
          /\ UNCHANGED stale
       \/ /\ UNCHANGED sessions
          /\ ReturnFailed(t, None)
          /\ stale' = stale \cup {c.sid}
    /\ UNCHANGED <<clock, messages, issued, nextMid, raced>>
    /\ UNCHANGED <<queried, auditVars, llmVars, textVars, uiVars>>

\* lines 137-143
AddMessageTouch(t) ==
    LET c == call[t] IN
    /\ c.op = "add_message" /\ c.pc = "touch"
    /\ \/ /\ sessions' = IF Exists(c.sid)
                         THEN [sessions EXCEPT ![c.sid].updated_at = c.now]
                         ELSE sessions
          /\ Return(t, Id(c.mid))
          /\ UNCHANGED stale
       \/ /\ UNCHANGED sessions
          /\ ReturnFailed(t, None)
          /\ stale' = stale \cup {c.sid}
    /\ UNCHANGED <<clock, messages, issued, nextMid, raced>>
    /\ UNCHANGED <<queried, auditVars, llmVars, textVars, uiVars>>

(***************************************************************************)
(* get_session, get_session_messages, get_user_sessions: one select each;  *)
(* a select that raises is logged and answered with None or [].            *)
(***************************************************************************)
GetSession(t, sid) ==
    /\ ~InFlight(t)
    /\ sid \in Known
    /\ \/ Answer(t, "get_session", sid, GetSessionResult(sid))
       \/ AnswerFailed(t, "get_session", sid, None)
    /\ UNCHANGED <<clock, sessions, messages, issued, nextMid, raced, stale>>
    /\ UNCHANGED <<queried, auditVars, llmVars, textVars, uiVars>>

\* lines 104-111
GetSessionMessagesOk(t, sid) ==
    /\ ~InFlight(t)
    /\ sid \in Known
    /\ \E r \in GetSessionMessagesResults(sid) : Answer(t, "get_session_messages", sid, r)
    /\ UNCHANGED <<clock, sessions, messages, issued, nextMid, raced, stale>>
    /\ UNCHANGED <<queried, auditVars, llmVars, textVars, uiVars>>

\* lines 112-114
GetSessionMessagesFail(t, sid) ==
    /\ ~InFlight(t)
    /\ sid \in Known
    /\ AnswerFailed(t, "get_session_messages", sid, Rows(<<>>))
    /\ UNCHANGED <<clock, sessions, messages, issued, nextMid, raced, stale>>
    /\ UNCHANGED <<queried, auditVars, llmVars, textVars, uiVars>>

GetSessionMessages(t, sid) == GetSessionMessagesOk(t, sid) \/ GetSessionMessagesFail(t, sid)

GetUserSessions(t, u) ==
    /\ ~InFlight(t)
    /\ \/ \E r \in GetUserSessionsResults(u) : Answer(t, "get_user_sessions", u, r)
       \/ AnswerFailed(t, "get_user_sessions", u, Rows(<<>>))
    /\ UNCHANGED <<clock, sessions, messages, issued, nextMid, raced, stale>>
    /\ UNCHANGED <<queried, auditVars, llmVars, textVars, uiVars>>

(***************************************************************************)
(* Text in the store.  A string is a sequence of characters; str.lower()   *)
(* and the store's pattern operator work on it character by character.     *)
(***************************************************************************)
\* the characters of names, contents and queries: a letter in both cases and the
\* pattern operator's three special characters
Chars == {"a", "A", "%", "_", "\\"}
Strings(n) == UNION {[1..k -> Chars] : k \in 0..n}

\* str.lower()
LowerChar(c) == IF c = "A" THEN "a" ELSE c
Lower(str) == [i \in 1..Len(str) |-> LowerChar(str[i])]

\* needle in hay
Contains(hay, needle) ==
    \E i \in 0..(Len(hay) - Len(needle)) : SubSeq(hay, i + 1, i + Len(needle)) = needle

\* escape_sql_like: a backslash before each backslash, % and _
RECURSIVE escape_sql_like(_)
escape_sql_like(str) ==
    IF str = <<>> THEN <<>>
    ELSE IF Head(str) \in {"\\", "%", "_"}
         THEN <<"\\", Head(str)>> \o escape_sql_like(Tail(str))
         ELSE <<Head(str)>> \o escape_sql_like(Tail(str))

\* the store's LIKE: % is any run of characters, _ any one character, and a
\* backslash makes the character after it literal
RECURSIVE Like(_, _)
Like(text, pat) ==
    IF pat = <<>> THEN text = <<>>
    ELSE IF Head(pat) = "%"
         THEN \E k \in 0..Len(text) : Like(SubSeq(text, k + 1, Len(text)), Tail(pat))
    ELSE IF Head(pat) = "_"
         THEN text # <<>> /\ Like(Tail(text), Tail(pat))
    ELSE IF Head(pat) = "\\"
         THEN /\ Len(pat) >= 2 /\ text # <<>>
              /\ Head(text) = pat[2]
              /\ Like(Tail(text), SubSeq(pat, 3, Len(pat)))
    ELSE text # <<>> /\ Head(text) = Head(pat) /\ Like(Tail(text), Tail(pat))

\* .ilike(column, pattern): LIKE without regard to case
ILike(text, pat) == Like(Lower(text), Lower(pat))

(***************************************************************************)
(* get_total_message_count, search_sessions, export_session_json: calls of *)
(* one or two selects that change nothing.  An outcome is the value         *)
(* returned, the number of selects made on the messages table, and whether *)
(* a select raised.                                                        *)
(***************************************************************************)
Number(n) == [kind |-> "int", val |-> n]
Json(v) == [kind |-> "json", val |-> v]
Outcome(v, n, r) == [ret |-> v, msg_queries |-> n, store_raised |-> r]

\* thread t calls o(u, sid, query) and returns in one step
AnswerOutcome(t, o, u, sid, query, r) ==
    /\ lastRet' = [of |-> o, by |-> t, user |-> u, sid |-> sid, query |-> query, ret |-> r.ret,
                   msg_queries |-> r.msg_queries, store_raised |-> r.store_raised]
    /\ UNCHANGED call

\* ids of the sessions of user u
SessionIdsOf(u) == {x \in DOMAIN sessions : sessions[x].user_id = u}

\* get_total_message_count without the early return
GetTotalMessageCountOutcomesAlwaysCounting(u) ==
    LET session_ids == SessionIdsOf(u)
        count == Len(SelectSeq(messages, LAMBDA m : m.session_id \in session_ids))
    IN {Outcome(Number(0), 0, TRUE), Outcome(Number(count), 1, FALSE), Outcome(Number(0), 1, TRUE)}

\* lines 150-177
GetTotalMessageCountOutcomes(u) ==
    LET session_ids == SessionIdsOf(u)
        count == Len(SelectSeq(messages, LAMBDA m : m.session_id \in session_ids))
    IN {Outcome(Number(0), 0, TRUE)}
       \cup (IF session_ids = {} THEN {Outcome(Number(0), 0, FALSE)}
             ELSE {Outcome(Number(count), 1, FALSE), Outcome(Number(0), 1, TRUE)})

GetTotalMessageCount(t, u) ==
    /\ ~InFlight(t)
    /\ queried < MaxQueries
    /\ queried' = queried + 1
    /\ \E r \in GetTotalMessageCountOutcomes(u) : AnswerOutcome(t, "get_total_message_count", u, "", <<>>, r)
    /\ UNCHANGED <<clock, sessions, messages, issued, nextMid, raced, stale>>
    /\ UNCHANGED <<auditVars, llmVars, textVars, uiVars>>

(***************************************************************************)
(* search_sessions                                                         *)
(***************************************************************************)
\* search_sessions that always asks the messages table, for every session listed
SearchOutcomesOfAskingAll(rows, raised, query) ==
    LET q == escape_sql_like(Lower(query))
        named(s) == Contains(Lower(s.session_name), q)
        by_name == SelectSeq(rows, named)
        matched_session_ids ==
            {rows[j].id : j \in {k \in 1..Len(rows) :
                \E i \in 1..Len(messages) :
                   /\ messages[i].session_id = rows[k].id
                   /\ ILike(messages[i].content, <<"%">> \o q \o <<"%">>)}}
        by_content == SelectSeq(rows, LAMBDA s : ~named(s) /\ s.id \in matched_session_ids)
    IN IF rows = <<>> THEN {Outcome(Rows(<<>>), 0, raised)}
       ELSE {Outcome(Rows(by_name \o by_content), 1, raised), Outcome(Rows(by_name), 1, TRUE)}

\* search_sessions that matches names only
SearchOutcomesOfNamesOnly(rows, raised, query) ==
    IF query = <<>> THEN {Outcome(Rows(rows), 0, raised)}
    ELSE {Outcome(Rows(SelectSeq(rows, LAMBDA s : Contains(Lower(s.session_name),
                                                          escape_sql_like(Lower(query))))),
                  0, raised)}

\* lines 182-213, given the rows get_user_sessions returned
SearchOutcomesOf(rows, raised, query) ==
    IF query = <<>> THEN {Outcome(Rows(rows), 0, raised)}
    ELSE
    LET q == escape_sql_like(Lower(query))
        named(s) == Contains(Lower(s.session_name), q)
        by_name == SelectSeq(rows, named)
        session_ids == {rows[i].id : i \in {j \in 1..Len(rows) : ~named(rows[j])}}
        matched_session_ids ==
            {sid \in session_ids :
                \E i \in 1..Len(messages) :
                   /\ messages[i].session_id = sid
                   /\ ILike(messages[i].content, <<"%">> \o q \o <<"%">>)}
        by_content == SelectSeq(rows, LAMBDA s : s.id \in matched_session_ids)
    IN IF session_ids = {} THEN {Outcome(Rows(by_name), 0, raised)}
       ELSE {Outcome(Rows(by_name \o by_content), 1, raised), Outcome(Rows(by_name), 1, TRUE)}

\* line 181 and on: get_user_sessions answers, or logs a failure and gives []
SearchSessionsOutcomes(u, query) ==
    UNION ({SearchOutcomesOf(r.val, FALSE, query) : r \in GetUserSessionsResults(u)}
           \cup {SearchOutcomesOf(<<>>, TRUE, query)})

SearchSessions(t, u, query) ==
    /\ ~InFlight(t)
    /\ queried < MaxQueries
    /\ queried' = queried + 1
    /\ \E r \in SearchSessionsOutcomes(u, query) : AnswerOutcome(t, "search_sessions", u, "", query, r)
    /\ UNCHANGED <<clock, sessions, messages, issued, nextMid, raced, stale>>
    /\ UNCHANGED <<auditVars, llmVars, textVars, uiVars>>

(***************************************************************************)
(* export_session_json, on the sessions table S and messages table M       *)
(***************************************************************************)
ErrorPayload == Json([error |-> "session not found"])

\* export_session_json that checks only that the session exists
ExportSessionJsonOutcomesUnowned(S, M, u, sid) ==
    {Outcome(ErrorPayload, 0, TRUE)}
    \cup (IF sid \notin DOMAIN S
          THEN {Outcome(ErrorPayload, 0, FALSE)}
          ELSE LET export_data(ms) == [session_name |-> S[sid].session_name,
                                       created_at |-> S[sid].created_at,
                                       messages |-> ms]
                   of_session == SelectSeq(M, LAMBDA m : m.session_id = sid)
               IN {Outcome(Json(export_data(ms)), 1, FALSE) :
                      ms \in Ordered(of_session, "created_at", FALSE)}
                  \cup {Outcome(Json(export_data(<<>>)), 1, TRUE)})

\* lines 216-225
ExportSessionJsonOutcomes(S, M, u, sid) ==
    {Outcome(ErrorPayload, 0, TRUE)}
    \cup (IF sid \notin DOMAIN S \/ S[sid].user_id # u
          THEN {Outcome(ErrorPayload, 0, FALSE)}
          ELSE LET export_data(ms) == [session_name |-> S[sid].session_name,
                                       created_at |-> S[sid].created_at,
                                       messages |-> ms]
                   of_session == SelectSeq(M, LAMBDA m : m.session_id = sid)
               IN {Outcome(Json(export_data(ms)), 1, FALSE) :
                      ms \in Ordered(of_session, "created_at", FALSE)}
                  \cup {Outcome(Json(export_data(<<>>)), 1, TRUE)})

ExportSessionJson(t, u, sid) ==
    /\ ~InFlight(t)
    /\ queried < MaxQueries
    /\ queried' = queried + 1
    /\ \E r \in ExportSessionJsonOutcomes(sessions, messages, u, sid) :
          AnswerOutcome(t, "export_session_json", u, sid, <<>>, r)
    /\ UNCHANGED <<clock, sessions, messages, issued, nextMid, raced, stale>>
    /\ UNCHANGED <<auditVars, llmVars, textVars, uiVars>>

(***************************************************************************)
(* log_event and the background thread it starts                           *)
(***************************************************************************)
EventTypes == {"chat_turn"}
\* payload= values log_event is called with
Payloads == {"p1", "p2"}

\* the arguments of one log_event call
Event(sid, event_type, payload) ==
    [session_id |-> sid, event_type |-> event_type, payload |-> payload]

\* log_event that waits for its thread: the caller stays in the call
LogEventJoining(t, sid, event_type, payload) ==
    /\ ~InFlight(t)
    /\ audit_table
    /\ logged < MaxAudit
    /\ logged' = logged + 1
    /\ enqueued' = Append(enqueued, Event(sid, event_type, payload))
    /\ writers' = writers \cup {[id |-> logged + 1, session_id |-> sid,
                                 event_type |-> event_type, payload |-> payload,
                                 pc |-> "start", created_at |-> 0]}
    /\ Enter(t, [op |-> "log_event", pc |-> "join", sid |-> sid])
    /\ UNCHANGED <<clock, sessions, messages, issued, nextMid, stale>>
    /\ UNCHANGED <<queried, audit_table, audit, audit_errors, llmVars, textVars, uiVars>>

\* lines 233-251: without a table name nothing happens; otherwise a daemon thread
\* is started and the call returns
LogEvent(t, sid, event_type, payload) ==
    /\ ~InFlight(t)
    /\ IF ~audit_table THEN UNCHANGED <<writers, logged, enqueued>>
       ELSE /\ logged < MaxAudit
            /\ logged' = logged + 1
            /\ enqueued' = Append(enqueued, Event(sid, event_type, payload))
            /\ writers' = writers \cup {[id |-> logged + 1, session_id |-> sid,
                                         event_type |-> event_type, payload |-> payload,
                                         pc |-> "start", created_at |-> 0]}
    /\ Answer(t, "log_event", sid, None)
    /\ UNCHANGED <<clock, sessions, messages, issued, nextMid, raced, stale>>
    /\ UNCHANGED <<queried, audit_table, audit, audit_errors, llmVars, textVars, uiVars>>

\* lines 238-244: the thread builds the record; its timestamp is read now
LogInBackgroundRecord(w) ==
    /\ w \in writers /\ w.pc = "start"
    /\ writers' = (writers \ {w}) \cup {[w EXCEPT !.pc = "insert", !.created_at = clock]}
    /\ lastRet' = NoReturn
    /\ UNCHANGED <<clock, sessions, messages, issued, nextMid, call, raced, stale>>
    /\ UNCHANGED <<queried, audit_table, audit, logged, enqueued, audit_errors>>
    /\ UNCHANGED <<llmVars, textVars, uiVars>>

\* line 245: the insert goes through
LogInBackgroundInsert(w) ==
    /\ w \in writers /\ w.pc = "insert"
    /\ audit' = audit \cup {[id |-> w.id, session_id |-> w.session_id,
                             event_type |-> w.event_type, payload |-> w.payload,
                             created_at |-> w.created_at]}
    /\ writers' = writers \ {w}
    /\ lastRet' = NoReturn
    /\ UNCHANGED <<clock, sessions, messages, issued, nextMid, call, raced, stale>>
    /\ UNCHANGED <<queried, audit_table, logged, enqueued, audit_errors>>
    /\ UNCHANGED <<llmVars, textVars, uiVars>>

\* _log_in_background that logs a failed insert and tries it again
LogInBackgroundFailRetrying(w) ==
    /\ w \in writers /\ w.pc = "insert"
    /\ audit_errors' = audit_errors \cup {w.id}
    /\ lastRet' = NoReturn
    /\ UNCHANGED <<clock, sessions, messages, issued, nextMid, call, raced, stale>>
    /\ UNCHANGED <<queried, audit_table, audit, writers, logged, enqueued, llmVars, textVars, uiVars>>

\* lines 246-247: the insert raises; the thread logs the error and ends
LogInBackgroundFail(w) ==
    /\ w \in writers /\ w.pc = "insert"
    /\ writers' = writers \ {w}
    /\ audit_errors' = audit_errors \cup {w.id}
    /\ lastRet' = NoReturn
    /\ UNCHANGED <<clock, sessions, messages, issued, nextMid, call, raced, stale>>
    /\ UNCHANGED <<queried, audit_table, audit, logged, enqueued, llmVars, textVars, uiVars>>

\* the steps of the background threads
LogInBackground ==
    \/ \E w \in writers : LogInBackgroundRecord(w)
    \/ \E w \in writers : LogInBackgroundInsert(w)
    \/ \E w \in writers : LogInBackgroundFail(w)

\* the steps of the background thread that the i-th enqueuing call started
LogInBackgroundOf(i) ==
    \E w \in writers :
        /\ w.id = i
        /\ LogInBackgroundRecord(w) \/ LogInBackgroundInsert(w) \/ LogInBackgroundFail(w)

\* line 28: the table name is "audit_logs" unless SUPABASE_AUDIT_TABLE is set
InitAuditTable == audit_table = TRUE
\* SUPABASE_AUDIT_TABLE may also be set to the empty string
InitAuditTableAny == audit_table \in BOOLEAN

InitDB ==
    /\ clock = 0
    /\ sessions = << >>
    /\ messages = << >>
    /\ issued = {}
    /\ nextMid = 0
    /\ call = [t \in Threads |-> Idle]
    /\ lastRet = NoReturn
    /\ raced = {}
    /\ stale = {}
    /\ queried = 0
    /\ audit = {}
    /\ writers = {}
    /\ logged = 0
    /\ enqueued = <<>>
    /\ audit_errors = {}

\* the calls a caller makes, over the sessions S, users U, names N and message
\* contents C it may pass
Calls(t, S, U, N, C) ==
    \/ \E sid \in S, u \in U, n \in N : CreateSession(t, sid, u, n)
    \/ \E sid \in S, n \in N : BeginRenameSession(t, sid, n)
    \/ RenameSessionUpdate(t)
    \/ \E sid \in S : DeleteSessionMessages(t, sid)
    \/ DeleteSessionRow(t)
    \/ \E sid \in S, text \in C : BeginAddMessage(t, sid, text)
    \/ AddMessageInsert(t)
    \/ AddMessageTouch(t)

Reads(t, S, U) ==
    \/ \E sid \in S : GetSession(t, sid)
    \/ \E sid \in S : GetSessionMessages(t, sid)
    \/ \E u \in U : GetUserSessions(t, u)

\* the calls of several selects, over the users U, sessions S and queries Q
Queries(t, S, U, Q) ==
    \/ \E u \in U : GetTotalMessageCount(t, u)
    \/ \E u \in U, query \in Q : SearchSessions(t, u, query)
    \/ \E u \in U, sid \in S : ExportSessionJson(t, u, sid)

(***************************************************************************)
(* utils/azure_llm.py.  Text is a sequence of characters.                  *)
(* A content value is a str, None, or a list of parts; a part is a dict    *)
(* (with or without a "text" entry), a str, or something else.             *)
(***************************************************************************)
StrC(s) == [t |-> "str", s |-> s, items |-> <<>>]
NoneC == [t |-> "none", s |-> <<>>, items |-> <<>>]
ListC(items) == [t |-> "list", s |-> <<>>, items |-> items]

DictPart(text) == [p |-> "dict", has_text |-> TRUE, text |-> text]
DictNoText == [p |-> "dict", has_text |-> FALSE, text |-> <<>>]
StrPart(text) == [p |-> "str", has_text |-> TRUE, text |-> text]
OtherPart == [p |-> "other", has_text |-> FALSE, text |-> <<>>]

PartValues == {DictPart(<<"a">>), DictPart(<<"b">>), DictPart(<<>>), DictNoText,
               StrPart(<<"c">>), StrPart(<<>>), OtherPart}
StrValues == {<<>>, <<"a">>, <<"a", "b">>}

SeqsUpTo(S, n) == UNION {[1..k -> S] : k \in 0..n}

ContentValues ==
    {NoneC} \cup {StrC(x) : x \in StrValues} \cup {ListC(i) : i \in SeqsUpTo(PartValues, MaxParts)}

\* lines 51-57: the texts collected from a list's items
RECURSIVE CollectParts(_)
CollectParts(items) ==
    IF items = <<>> THEN <<>>
    ELSE LET item == Head(items)
             rest == CollectParts(Tail(items))
         IN IF item.p = "dict"
            THEN IF item.has_text /\ item.text # <<>> THEN <<item.text>> \o rest ELSE rest
            ELSE IF item.p = "str" THEN <<item.text>> \o rest
            ELSE rest

\* "".join(parts)
RECURSIVE Join(_)
Join(parts) == IF parts = <<>> THEN <<>> ELSE Head(parts) \o Join(Tail(parts))

\* repr() of a list item, as one token
PyRepr(item) ==
    IF item.p = "dict"
    THEN (IF item.has_text THEN <<"{'type': 'text', 'text': ">> \o <<"'">> \o item.text \o <<"'}">>
          ELSE <<"{'type': 'image_url'}">>)
    ELSE IF item.p = "str" THEN <<"'">> \o item.text \o <<"'">>
    ELSE <<"0">>

RECURSIVE PyReprItems(_)
PyReprItems(items) ==
    IF items = <<>> THEN <<>>
    ELSE IF Len(items) = 1 THEN PyRepr(Head(items))
    ELSE PyRepr(Head(items)) \o <<", ">> \o PyReprItems(Tail(items))

\* bool(content)
Truthy(c) ==
    IF c.t = "str" THEN c.s # <<>>
    ELSE IF c.t = "list" THEN c.items # <<>>
    ELSE FALSE

\* line 60: str(content or "")
PyStrOrEmpty(c) ==
    IF ~Truthy(c) THEN <<>>
    ELSE IF c.t = "str" THEN c.s
    ELSE <<"[">> \o PyReprItems(c.items) \o <<"]">>

\* lines 46-60
ContentToText(c) ==
    IF c.t = "str" THEN c.s
    ELSE IF c.t = "list" /\ CollectParts(c.items) # <<>> THEN Join(CollectParts(c.items))
    ELSE PyStrOrEmpty(c)

NotNormalized == [done |-> FALSE, text |-> <<>>]

ContentToTextCall ==
    /\ ~normalized.done
    /\ normalized' = [done |-> TRUE, text |-> ContentToText(content)]
    /\ UNCHANGED content
    /\ UNCHANGED <<dbVars, llmVars, uiVars>>

InitTextIdle ==
    /\ content = NoneC
    /\ normalized = NotNormalized

InitText ==
    /\ content \in ContentValues
    /\ normalized = NotNormalized

(***************************************************************************)
(* The provider, as the adapter sees it.                                   *)
(***************************************************************************)
\* timeout= values a caller passes (the default is 60.0)
Timeouts == {30, 60}
\* deployment= values a caller passes; "" is an unset deployment variable
Deployments == {"phi4", ""}

\* exceptions client.chat.completions.create can raise; OtherError is any
\* exception class the handlers do not name
RequestFaults == {"BadRequestError", "NotFoundError", "TimeoutError", "OtherError"}
\* exceptions the iteration of a streamed response can raise
DrainFaults == {"TimeoutError", "OtherError"}

\* a dict without entries, and exc.body = None
EmptyDict == [k \in {} |-> 0]
NoBody == [isnone |-> TRUE]

FilterResult(fr) == [error |-> [code |-> "content_filter",
                                innererror |-> [content_filter_result |-> fr]]]

\* bodies of a BadRequestError
Bodies ==
    {NoBody, EmptyDict,
     [error |-> EmptyDict],
     [error |-> [code |-> "invalid_request_error"]],
     [error |-> [code |-> "content_filter"]],
     [error |-> [code |-> "content_filter", innererror |-> EmptyDict]],
     FilterResult(EmptyDict),
     FilterResult([jailbreak |-> EmptyDict]),
     FilterResult([jailbreak |-> [filtered |-> FALSE]]),
     FilterResult([jailbreak |-> [filtered |-> TRUE]]),
     FilterResult([hate |-> [filtered |-> TRUE]]),
     FilterResult([hate |-> [filtered |-> TRUE], jailbreak |-> [filtered |-> FALSE]]),
     FilterResult([hate |-> [filtered |-> FALSE], jailbreak |-> [filtered |-> TRUE]])}

\* dict.get(key, default)
Get(d, key, default) == IF key \in DOMAIN d THEN d[key] ELSE default

\* getattr(exc, 'body', {}) or {}
BodyOrEmpty(body) == IF "isnone" \in DOMAIN body \/ DOMAIN body = {} THEN EmptyDict ELSE body

\* a choice's delta, or a choice without one
Delta(c) == [has_delta |-> TRUE, content |-> c]
NoDelta == [has_delta |-> FALSE, content |-> NoneC]

\* content values the provider sends in deltas and messages
SentContents == {NoneC, StrC(<<>>), StrC(<<"a">>), ListC(<<DictPart(<<"b">>)>>),
                 ListC(<<DictNoText>>)}

\* a streamed event is the list of its choices' deltas
Events == {<<>>} \cup {<<d>> : d \in {NoDelta} \cup {Delta(c) : c \in SentContents}}
EventStreams == SeqsUpTo(Events, MaxEvents)

\* the choices of a single-shot response, each by its message content
ChoiceLists == SeqsUpTo(SentContents, 2)

(***************************************************************************)
(* Errors raised to the caller.  The adapter raises RuntimeError with a    *)
(* message per kind; an exception it does not handle leaves as it came.    *)
(***************************************************************************)
NoError == [kind |-> "none", cause |-> "none", timeout |-> 0, model |-> ""]
\* raise RuntimeError(...) from exc
Classified(kind, cause, timeout, model) ==
    [kind |-> kind, cause |-> cause, timeout |-> timeout, model |-> model]
\* raise / an exception no handler matches
Raw(fault) == [kind |-> fault, cause |-> "none", timeout |-> 0, model |-> ""]

ClassifiedKinds == {"PromptInjectionBlocked", "ContentPolicyBlocked", "DeploymentNotFound",
                    "RequestTimeout", "StreamProcessingError"}

\* complete_chat that reads the flag of the whole filter result
ClassifyCompleteAnyFilter(body) ==
    LET error_detail == Get(BodyOrEmpty(body), "error", EmptyDict)
        inner_error == Get(error_detail, "innererror", EmptyDict)
        filter_result == Get(inner_error, "content_filter_result", EmptyDict)
    IN IF Get(error_detail, "code", "") = "content_filter"
       THEN IF \E k \in DOMAIN filter_result : Get(filter_result[k], "filtered", FALSE)
            THEN "PromptInjectionBlocked"
            ELSE "ContentPolicyBlocked"
       ELSE "reraise"

\* stream_chat, lines 81-105
ClassifyStream(body) ==
    LET error_body == BodyOrEmpty(body)
        error_detail == Get(error_body, "error", EmptyDict)
        error_code == Get(error_detail, "code", "")
        inner_error == Get(error_detail, "innererror", EmptyDict)
        filter_result == Get(inner_error, "content_filter_result", EmptyDict)
    IN IF error_code = "content_filter"
       THEN IF Get(Get(filter_result, "jailbreak", EmptyDict), "filtered", FALSE)
            THEN "PromptInjectionBlocked"
            ELSE "ContentPolicyBlocked"
       ELSE "reraise"

\* complete_chat, lines 146-170
ClassifyComplete(body) ==
    LET error_body == BodyOrEmpty(body)
        error_detail == Get(error_body, "error", EmptyDict)
        error_code == Get(error_detail, "code", "")
        inner_error == Get(error_detail, "innererror", EmptyDict)
        filter_result == Get(inner_error, "content_filter_result", EmptyDict)
    IN IF error_code = "content_filter"
       THEN IF Get(Get(filter_result, "jailbreak", EmptyDict), "filtered", FALSE)
            THEN "PromptInjectionBlocked"
            ELSE "ContentPolicyBlocked"
       ELSE "reraise"

\* stream_chat, lines 81-115: what leaves the call when create() raised fault
StreamRequestError(fault, body, model, timeout) ==
    IF fault = "BadRequestError"
    THEN IF ClassifyStream(body) = "reraise" THEN Raw(fault)
         ELSE Classified(ClassifyStream(body), fault, 0, "")
    ELSE IF fault = "NotFoundError" THEN Classified("DeploymentNotFound", fault, 0, model)
    ELSE IF fault = "TimeoutError" THEN Classified("RequestTimeout", fault, timeout, "")
    ELSE Raw(fault)

\* complete_chat that ends its handlers with a catch-all wrapping what is left
CompleteRequestErrorWrapped(fault, body, model, timeout) ==
    IF fault = "BadRequestError" /\ ClassifyComplete(body) # "reraise"
    THEN Classified(ClassifyComplete(body), fault, 0, "")
    ELSE IF fault = "NotFoundError" THEN Classified("DeploymentNotFound", fault, 0, model)
    ELSE IF fault = "TimeoutError" THEN Classified("RequestTimeout", fault, timeout, "")
    ELSE Classified("RequestFailed", fault, 0, "")

\* complete_chat, lines 146-180
CompleteRequestError(fault, body, model, timeout) ==
    IF fault = "BadRequestError"
    THEN IF ClassifyComplete(body) = "reraise" THEN Raw(fault)
         ELSE Classified(ClassifyComplete(body), fault, 0, "")
    ELSE IF fault = "NotFoundError" THEN Classified("DeploymentNotFound", fault, 0, model)
    ELSE IF fault = "TimeoutError" THEN Classified("RequestTimeout", fault, timeout, "")
    ELSE Raw(fault)

\* stream_chat whose drain lets a timeout through as RequestTimeout
StreamDrainErrorSplit(fault, timeout) ==
    IF fault = "TimeoutError" THEN Classified("RequestTimeout", fault, timeout, "")
    ELSE Raw(fault)

\* stream_chat, lines 123-126: except Exception around the drain
StreamDrainError(fault, timeout) == Classified("StreamProcessingError", fault, 0, "")

\* complete_chat that takes choices[0] without looking
CompleteChatResultUnguarded(choices) ==
    IF choices = <<>> THEN [pc |-> "raised", result |-> <<>>, raised |-> Raw("IndexError")]
    ELSE [pc |-> "returned", result |-> ContentToText(choices[1]), raised |-> NoError]

\* complete_chat, lines 181-184
CompleteChatResult(choices) ==
    IF choices = <<>> THEN [pc |-> "returned", result |-> <<>>, raised |-> NoError]
    ELSE [pc |-> "returned", result |-> ContentToText(choices[1]), raised |-> NoError]

\* require_azure_env, lines 11-14
MissingEnv(value) == value = ""

(***************************************************************************)
(* stream_chat                                                             *)
(***************************************************************************)
StreamIdle == [pc |-> "idle", stage |-> "", model |-> "", timeout |-> 0, client |-> 0,
               fault |-> "none",
               body |-> NoBody, events |-> <<>>, cur |-> <<>>, yielded |-> <<>>,
               raised |-> NoError]

\* lines 71-72: the deployment, then the look in the cache of get_azure_client;
\* on a miss the body of get_azure_client runs next
StreamChatCall(d, to) ==
    /\ stream.pc = "idle"
    /\ IF MissingEnv(d)
       THEN stream' = [stream EXCEPT !.pc = "raised", !.stage = "config", !.timeout = to,
                                     !.raised = Classified("ConfigurationError", "none", 0, "")]
       ELSE IF client # 0
       THEN stream' = [stream EXCEPT !.pc = "request", !.model = d, !.timeout = to,
                                     !.client = client]
       ELSE stream' = [stream EXCEPT !.pc = "resolve", !.model = d, !.timeout = to]
    /\ UNCHANGED <<env_ok, client, built, complete>>
    /\ UNCHANGED <<dbVars, textVars, uiVars>>

\* lines 30-43 run by stream_chat: the environment is read and a client is built;
\* lru_cache keeps it unless the cache was filled meanwhile, and the caller gets
\* the client it built.  An exception is not cached.
StreamGetAzureClient ==
    /\ stream.pc = "resolve"
    /\ IF ~env_ok
       THEN /\ stream' = [stream EXCEPT !.pc = "raised", !.stage = "config",
                                        !.raised = Classified("ConfigurationError", "none", 0, "")]
            /\ UNCHANGED <<client, built>>
       ELSE /\ built' = built + 1
            /\ client' = IF client = 0 THEN built + 1 ELSE client
            /\ stream' = [stream EXCEPT !.pc = "request", !.client = built + 1]
    /\ UNCHANGED <<env_ok, complete>>
    /\ UNCHANGED <<dbVars, textVars, uiVars>>

\* lines 73-115: the request
StreamRequest ==
    /\ stream.pc = "request"
    /\ \/ \E evs \in EventStreams :
             stream' = [stream EXCEPT !.pc = "drain", !.stage = "drain", !.events = evs]
       \/ \E f \in RequestFaults, b \in Bodies :
             /\ f # "BadRequestError" => b = NoBody
             /\ stream' = [stream EXCEPT
                              !.pc = "raised", !.stage = "request", !.fault = f, !.body = b,
                              !.raised = StreamRequestError(f, b, stream.model, stream.timeout)]
    /\ UNCHANGED <<env_ok, client, built, complete>>
    /\ UNCHANGED <<dbVars, textVars, uiVars>>

\* line 118: the next event, the end of the stream, or a fault
StreamNextEvent ==
    /\ stream.pc = "drain" /\ stream.cur = <<>>
    /\ \/ /\ stream.events # <<>>
          /\ stream' = [stream EXCEPT !.cur = Head(stream.events), !.events = Tail(stream.events)]
       \/ /\ stream.events = <<>>
          /\ stream' = [stream EXCEPT !.pc = "done"]
       \/ \E f \in DrainFaults :
             stream' = [stream EXCEPT !.pc = "raised", !.fault = f,
                                      !.raised = StreamDrainError(f, stream.timeout)]
    /\ UNCHANGED <<env_ok, client, built, complete>>
    /\ UNCHANGED <<dbVars, textVars, uiVars>>

\* lines 119-122: one choice of the event
StreamChoice ==
    /\ stream.pc = "drain" /\ stream.cur # <<>>
    /\ LET delta == Head(stream.cur) IN
       IF delta.has_delta /\ Truthy(delta.content)
       THEN stream' = [stream EXCEPT !.cur = Tail(stream.cur),
                                     !.yielded = Append(@, ContentToText(delta.content))]
       ELSE stream' = [stream EXCEPT !.cur = Tail(stream.cur)]
    /\ UNCHANGED <<env_ok, client, built, complete>>
    /\ UNCHANGED <<dbVars, textVars, uiVars>>

(***************************************************************************)
(* complete_chat                                                           *)
(***************************************************************************)
CompleteIdle == [pc |-> "idle", stage |-> "", model |-> "", timeout |-> 0, client |-> 0,
                 fault |-> "none",
                 body |-> NoBody, choices |-> <<>>, result |-> <<>>, raised |-> NoError]

\* lines 137-138: the deployment, then the look in the cache of get_azure_client
CompleteChatCall(d, to) ==
    /\ complete.pc = "idle"
    /\ IF MissingEnv(d)
       THEN complete' = [complete EXCEPT !.pc = "raised", !.stage = "config", !.timeout = to,
                                         !.raised = Classified("ConfigurationError", "none", 0, "")]
       ELSE IF client # 0
       THEN complete' = [complete EXCEPT !.pc = "request", !.model = d, !.timeout = to,
                                         !.client = client]
       ELSE complete' = [complete EXCEPT !.pc = "resolve", !.model = d, !.timeout = to]
    /\ UNCHANGED <<env_ok, client, built, stream>>
    /\ UNCHANGED <<dbVars, textVars, uiVars>>

\* lines 30-43 run by complete_chat
CompleteGetAzureClient ==
    /\ complete.pc = "resolve"
    /\ IF ~env_ok
       THEN /\ complete' = [complete EXCEPT !.pc = "raised", !.stage = "config",
                                            !.raised = Classified("ConfigurationError", "none", 0, "")]
            /\ UNCHANGED <<client, built>>
       ELSE /\ built' = built + 1
            /\ client' = IF client = 0 THEN built + 1 ELSE client
            /\ complete' = [complete EXCEPT !.pc = "request", !.client = built + 1]
    /\ UNCHANGED <<env_ok, stream>>
    /\ UNCHANGED <<dbVars, textVars, uiVars>>

\* lines 139-184
CompleteRequest ==
    /\ complete.pc = "request"
    /\ \/ \E cs \in ChoiceLists :
             LET r == CompleteChatResult(cs) IN
             complete' = [complete EXCEPT !.pc = r.pc, !.stage = "response", !.choices = cs,
                                          !.result = r.result, !.raised = r.raised]
       \/ \E f \in RequestFaults, b \in Bodies :
             /\ f # "BadRequestError" => b = NoBody
             /\ complete' = [complete EXCEPT
                                !.pc = "raised", !.stage = "request", !.fault = f, !.body = b,
                                !.raised = CompleteRequestError(f, b, complete.model,
                                                                complete.timeout)]
    /\ UNCHANGED <<env_ok, client, built, stream>>
    /\ UNCHANGED <<dbVars, textVars, uiVars>>

InitLLMIdle ==
    /\ env_ok = TRUE
    /\ client = 0
    /\ built = 0
    /\ stream = StreamIdle
    /\ complete = CompleteIdle

InitLLM ==
    /\ env_ok \in BOOLEAN
    /\ client = 0
    /\ built = 0
    /\ stream = StreamIdle
    /\ complete = CompleteIdle

(***************************************************************************)
(* utils/state_manager.py: the assistant panels and the action history     *)
(* kept in st.session_state.                                               *)
(***************************************************************************)
RECENT_ACTION_LIMIT == 5

\* kind= values of activate_assistant; "none" is None
Kinds == {"email", "meeting", "other", "none"}
\* action_type= and data= values of queue_action_collapse
ActionTypes == {"email", "meeting", "other"}
Data == {"d1"}

\* response texts, as sequences of words; None is NoText
NoText == <<"None">>
ResponseTexts ==
    {NoText, <<>>, <<"hello">>,
     <<"Draft", "an", "email">>,
     <<"book", "a", "meeting">>,
     <<"calendar", "invite", "or", "send", "an", "email">>,
     <<"draft", "email">>}

\* str.lower() on the words of a text
LowerWord(w) == IF w = "Draft" THEN "draft" ELSE w
LowerWords(text) == [i \in 1..Len(text) |-> LowerWord(text[i])]

\* lines 138-149
email_cues ==
    {<<"email", "assistant">>, <<"draft", "an", "email">>,
     <<"compose", "an", "email">>, <<"send", "an", "email">>}
meeting_cues ==
    {<<"meeting", "assistant">>, <<"schedule", "a", "meeting">>,
     <<"calendar", "invite">>, <<"book", "a", "meeting">>}

\* lines 35-37, 73-74: the defaults of a new session
InitSessionStateIdle ==
    /\ show_tool_picker = FALSE
    /\ show_email_builder = FALSE
    /\ show_meeting_builder = FALSE
    /\ recent_actions = <<>>
    /\ pending_action_collapses = <<>>
    /\ queued = 0

\* the same; setdefault keeps the picker as the session has it when the page
\* already opened or closed it
InitSessionState ==
    /\ show_tool_picker \in BOOLEAN
    /\ show_email_builder = FALSE
    /\ show_meeting_builder = FALSE
    /\ recent_actions = <<>>
    /\ pending_action_collapses = <<>>
    /\ queued = 0

\* lines 92-94: what activate_assistant writes
SetAssistant(kind) ==
    /\ show_email_builder' = (kind = "email")
    /\ show_meeting_builder' = (kind = "meeting")
    /\ show_tool_picker' = FALSE

\* activate_assistant that shows the builder asked for and leaves the other
ActivateAssistantAdding(kind, rerun) ==
    /\ show_email_builder' = (show_email_builder \/ kind = "email")
    /\ show_meeting_builder' = (show_meeting_builder \/ kind = "meeting")
    /\ show_tool_picker' = FALSE
    /\ UNCHANGED <<recent_actions, pending_action_collapses, queued>>
    /\ UNCHANGED <<dbVars, llmVars, textVars>>

\* lines 87-96; st.rerun() ends the script run and leaves session_state as set
ActivateAssistant(kind, rerun) ==
    /\ SetAssistant(kind)
    /\ UNCHANGED <<recent_actions, pending_action_collapses, queued>>
    /\ UNCHANGED <<dbVars, llmVars, textVars>>

\* lines 99-113
QueueActionCollapse(action_type, data) ==
    /\ queued < MaxQueued
    /\ queued' = queued + 1
    /\ show_email_builder' = IF action_type = "email" THEN FALSE ELSE show_email_builder
    /\ show_meeting_builder' =
          IF action_type # "email" /\ action_type = "meeting" THEN FALSE
          ELSE show_meeting_builder
    /\ show_tool_picker' = FALSE
    /\ pending_action_collapses' =
          Append(pending_action_collapses,
                 [type |-> action_type, timestamp |-> clock, data |-> data])
    /\ UNCHANGED recent_actions
    /\ UNCHANGED <<dbVars, llmVars, textVars>>

\* updated[:n]
Take(seq, n) == SubSeq(seq, 1, IF Len(seq) < n THEN Len(seq) ELSE n)

\* handle_pending_action_collapses that puts the pending entries behind the recent
HandlePendingActionCollapsesBehind ==
    LET pending == pending_action_collapses IN
    /\ pending # <<>>
    /\ show_email_builder' =
          IF \E i \in 1..Len(pending) : pending[i].type = "email" THEN FALSE
          ELSE show_email_builder
    /\ show_meeting_builder' =
          IF \E i \in 1..Len(pending) : pending[i].type = "meeting" THEN FALSE
          ELSE show_meeting_builder
    /\ recent_actions' = Take(recent_actions \o pending, RECENT_ACTION_LIMIT)
    /\ pending_action_collapses' = <<>>
    /\ UNCHANGED <<show_tool_picker, queued>>
    /\ UNCHANGED <<dbVars, llmVars, textVars>>

\* lines 116-130
HandlePendingActionCollapses ==
    LET pending == pending_action_collapses
        updated == pending \o recent_actions
    IN
    /\ IF pending = <<>>
       THEN UNCHANGED <<show_email_builder, show_meeting_builder, recent_actions,
                        pending_action_collapses>>
       ELSE /\ show_email_builder' =
                  IF \E i \in 1..Len(pending) : pending[i].type = "email" THEN FALSE
                  ELSE show_email_builder
            /\ show_meeting_builder' =
                  IF \E i \in 1..Len(pending) : pending[i].type = "meeting" THEN FALSE
                  ELSE show_meeting_builder
            /\ recent_actions' = Take(updated, RECENT_ACTION_LIMIT)
            /\ pending_action_collapses' = <<>>
    /\ UNCHANGED <<show_tool_picker, queued>>
    /\ UNCHANGED <<dbVars, llmVars, textVars>>

\* lines 133-153
MaybeAutoOpenAssistant(response_text) ==
    LET lowered == LowerWords(response_text) IN
    /\ IF response_text = NoText \/ response_text = <<>>
       THEN UNCHANGED <<show_email_builder, show_meeting_builder, show_tool_picker>>
       ELSE IF \E cue \in email_cues : Contains(lowered, cue)
       THEN SetAssistant("email")
       ELSE IF \E cue \in meeting_cues : Contains(lowered, cue)
       THEN SetAssistant("meeting")
       ELSE UNCHANGED <<show_email_builder, show_meeting_builder, show_tool_picker>>
    /\ UNCHANGED <<recent_actions, pending_action_collapses, queued>>
    /\ UNCHANGED <<dbVars, llmVars, textVars>>

(***************************************************************************)
(* Specifications.                                                         *)
(***************************************************************************)
Init == InitDB /\ InitAuditTable /\ InitLLMIdle /\ InitTextIdle /\ InitSessionStateIdle

Next ==
    \/ Tick
    \/ \E t \in SeqThreads : Calls(t, SessionIds, Users, Names, Contents)
    \/ \E t \in SeqThreads : Reads(t, SessionIds, Users)

Spec == Init /\ [][Next]_vars

InitConc == InitDB /\ InitAuditTableAny /\ InitLLMIdle /\ InitTextIdle /\ InitSessionStateIdle

NextConc ==
    \/ Tick
    \/ \E t \in Threads : Calls(t, ConcSessionIds, ConcUsers, Names, Contents)
    \/ \E t \in Threads, sid \in ConcSessionIds, e \in EventTypes, p \in Payloads :
          LogEvent(t, sid, e, p)
    \/ LogInBackground

SpecConc == InitConc /\ [][NextConc]_vars

\* SpecAudit: SpecConc in a process that does not end: a thread that was started
\* runs, and the store answers or raises at each request
SpecAudit == InitConc /\ [][NextConc]_vars /\ \A i \in 1..MaxAudit : WF_vars(LogInBackgroundOf(i))

InitLLMSpec == InitDB /\ InitAuditTable /\ InitLLM /\ InitTextIdle /\ InitSessionStateIdle

NextLLM ==
    \/ \E d \in Deployments, to \in Timeouts : StreamChatCall(d, to)
    \/ StreamGetAzureClient
    \/ StreamRequest
    \/ StreamNextEvent
    \/ StreamChoice
    \/ \E d \in Deployments, to \in Timeouts : CompleteChatCall(d, to)
    \/ CompleteGetAzureClient
    \/ CompleteRequest

SpecLLM == InitLLMSpec /\ [][NextLLM]_vars

InitTextSpec == InitDB /\ InitAuditTable /\ InitLLMIdle /\ InitText /\ InitSessionStateIdle

NextText == ContentToTextCall

SpecText == InitTextSpec /\ [][NextText]_vars

\* SpecUI: the session-state operations of one script session
InitUI == InitDB /\ InitAuditTable /\ InitLLMIdle /\ InitTextIdle /\ InitSessionState

NextUI ==
    \/ Tick
    \/ \E kind \in Kinds, rerun \in BOOLEAN : ActivateAssistant(kind, rerun)
    \/ \E action_type \in ActionTypes, data \in Data : QueueActionCollapse(action_type, data)
    \/ HandlePendingActionCollapses
    \/ \E response_text \in ResponseTexts : MaybeAutoOpenAssistant(response_text)

SpecUI == InitUI /\ [][NextUI]_vars

\* SpecAll: Spec with the calls of several selects
NextAll ==
    \/ Tick
    \/ \E t \in SeqThreads : Calls(t, SessionIds, Users, Names, Contents)
    \/ \E t \in SeqThreads : Reads(t, SessionIds, Users)
    \/ \E t \in SeqThreads : Queries(t, SessionIds, Users, SeqQueries)

SpecAll == Init /\ [][NextAll]_vars

\* SpecRead: the calls of several selects on every store of two sessions and two
\* messages whose name and content are within MaxStrLen
StoreSession(sid, u, n) ==
    [id |-> sid, user_id |-> u, session_name |-> n, created_at |-> 0, updated_at |-> 0]
StoreMessage(mid, sid, text) ==
    [id |-> mid, session_id |-> sid, content |-> text, created_at |-> 0]

InitStore ==
    /\ clock = 0
    /\ \E n \in Strings(MaxStrLen), u \in Users :
          sessions = [sid \in SessionIds |->
                         IF sid = "s1" THEN StoreSession("s1", "u1", n)
                         ELSE StoreSession("s2", u, <<"a">>)]
    /\ \E text \in Strings(MaxStrLen) :
          messages \in {<<>>, <<StoreMessage(1, "s1", text)>>,
                        <<StoreMessage(1, "s1", text), StoreMessage(2, "s2", <<"A">>)>>}
    /\ issued = SessionIds
    /\ nextMid = Len(messages)
    /\ call = [t \in Threads |-> Idle]
    /\ lastRet = NoReturn
    /\ raced = {}
    /\ stale = {}
    /\ queried = 0
    /\ audit = {}
    /\ writers = {}
    /\ logged = 0
    /\ enqueued = <<>>
    /\ audit_errors = {}

InitRead == InitStore /\ InitAuditTable /\ InitLLMIdle /\ InitTextIdle /\ InitSessionStateIdle

NextRead == \E t \in SeqThreads : Queries(t, SessionIds, Users, Strings(MaxStrLen))

SpecRead == InitRead /\ [][NextRead]_vars

(***************************************************************************)
(* Properties of the persistence gateway.                                  *)
(***************************************************************************)
\* updated_at of session s covers its created_at and every message of it
Covered(s) ==
    /\ sessions[s].updated_at >= sessions[s].created_at
    /\ \A i \in 1..Len(MessagesOf(s)) : sessions[s].updated_at >= MessagesOf(s)[i].created_at

\* C1, as stated: once every call has returned and no add_message lost its second
\* write, updated_at covers created_at and every message, also when calls on
\* the session overlapped.
C1_CoveredUnderOverlap ==
    AllReturned => \A s \in DOMAIN sessions \ stale : Covered(s)

\* C1, amended: the same for the sessions on which no two calls overlapped.
C1_CoveredWithoutOverlap ==
    AllReturned => \A s \in DOMAIN sessions \ (stale \cup raced) : Covered(s)

C1_Witness ==
    /\ AllReturned
    /\ "s1" \in DOMAIN sessions \ (stale \cup raced)
    /\ Len(MessagesOf("s1")) = 2
    /\ sessions["s1"].session_name = <<"A", "%">>
    /\ sessions["s1"].updated_at > sessions["s1"].created_at

\* C2, as stated: a get_session_messages that goes through, on a session whose
\* add_message calls were sequential and complete, returns the session's messages
\* in the order they were inserted.
C2_ReadInInsertionOrder ==
    [][\A t \in Threads, sid \in SessionIds \ stale :
          GetSessionMessagesOk(t, sid) => lastRet'.ret = Rows(MessagesOf(sid))]_vars

\* C3, as stated: a rename_session that goes through on an existing session leaves
\* get_session with the new name and a strictly greater updated_at.
C3_RenameBumpsStrictly ==
    [][\A t \in Threads, sid \in SessionIds, n \in Names :
          (/\ RenameSessionUpdate(t)
           /\ call[t].sid = sid /\ call[t].name = n
           /\ lastRet'.ret = Bool(TRUE)
           /\ Exists(sid))
          => /\ GetSessionResult(sid)'.val.session_name = n
             /\ GetSessionResult(sid)'.val.updated_at > GetSessionResult(sid).val.updated_at]_vars

\* what C4 promises of session sid
Gone(sid) ==
    /\ \A r \in GetSessionMessagesResults(sid) : r = Rows(<<>>)
    /\ GetSessionResult(sid) = None
    /\ \A u \in Users : \A r \in GetUserSessionsResults(u) :
          \A i \in 1..Len(r.val) : r.val[i].id # sid

C5_UpdatedAtIsLastMessage ==
    [][\A t \in Threads, sid \in SessionIds :
          (/\ AddMessageTouch(t)
           /\ call[t].sid = sid
           /\ lastRet'.ret.kind = "id"
           /\ Exists(sid))
          => LET ms == MessagesOf(sid) IN
             /\ ms # <<>>
             /\ ms[Len(ms)].id = lastRet'.ret.val
             /\ GetSessionResult(sid)'.val.updated_at = ms[Len(ms)].created_at]_vars

C5_Witness ==
    /\ lastRet.of = "add_message" /\ lastRet.ret.kind = "id" /\ lastRet.sid = "s1"
    /\ Exists("s1")
    /\ Len(MessagesOf("s1")) = 2
    /\ sessions["s1"].updated_at = MessagesOf("s1")[2].created_at
    /\ sessions["s1"].updated_at # sessions["s1"].created_at

(***************************************************************************)
(* Properties of search, count and export.  These calls are one step and   *)
(* change nothing, so the store a call read is the store of the state its  *)
(* return is seen in.                                                      *)
(***************************************************************************)
IdsOf(rows) == {rows[i].id : i \in 1..Len(rows)}

Returned(o) == "user" \in DOMAIN lastRet /\ lastRet.of = o

\* C12: search_sessions(u, "") returns what its get_user_sessions(u) returned (one
\* of the listings the store can give, or [] when the select raised), as it is,
\* and makes no select on the messages table.
C12_EmptyQueryListsAll ==
    (Returned("search_sessions") /\ lastRet.query = <<>>)
    => /\ lastRet.msg_queries = 0
       /\ IF lastRet.store_raised THEN lastRet.ret = Rows(<<>>)
          ELSE lastRet.ret \in GetUserSessionsResults(lastRet.user)

C12_Witness ==
    /\ Returned("search_sessions") /\ lastRet.user = "u1" /\ lastRet.query = <<>>
    /\ ~lastRet.store_raised /\ lastRet.msg_queries = 0
    /\ Len(lastRet.ret.val) = 2
    /\ sessions["s1"].session_name = <<"%", "a">>
    /\ Len(messages) = 2

\* the query occurs, without regard to case, in a message of session sid
InContent(sid, query) ==
    \E i \in 1..Len(messages) :
       messages[i].session_id = sid /\ Contains(Lower(messages[i].content), Lower(query))

\* the query occurs, without regard to case, in the name of session sid
InName(sid, query) == Contains(Lower(sessions[sid].session_name), Lower(query))

\* sessions of user u that a message brings up for a query no name of theirs holds
OnlyInContent(u, query) ==
    IF \E sid \in SessionIdsOf(u) : InName(sid, query) THEN {}
    ELSE {sid \in SessionIdsOf(u) : InContent(sid, query)}

C14_ExactLiteralMatches ==
    (Returned("search_sessions") /\ lastRet.query # <<>> /\ ~lastRet.store_raised)
    => /\ IdsOf(lastRet.ret.val)
             = {sid \in SessionIdsOf(lastRet.user) :
                   InName(sid, lastRet.query) \/ InContent(sid, lastRet.query)}
       /\ \A i, j \in 1..Len(lastRet.ret.val) :
             lastRet.ret.val[i].id = lastRet.ret.val[j].id => i = j

\* C15: get_total_message_count of a user without sessions returns 0 and makes no
\* select on the messages table.
C15_NoSessionsNoCount ==
    (Returned("get_total_message_count") /\ SessionIdsOf(lastRet.user) = {})
    => lastRet.ret = Number(0) /\ lastRet.msg_queries = 0

C15_Witness ==
    /\ Returned("get_total_message_count") /\ lastRet.user = "u2"
    /\ ~lastRet.store_raised
    /\ SessionIdsOf("u2") = {}
    /\ Len(messages) = 2
    /\ lastRet.ret = Number(0)

\* the stores that differ from this one only in the name, the timestamps and the
\* messages of session sid
VariantsOf(sid) ==
    {[S |-> [sessions EXCEPT ![sid].session_name = n, ![sid].created_at = ts,
                             ![sid].updated_at = ts],
      M |-> M] :
        n \in Names, ts \in 0..MaxClock,
        M \in {messages, SelectSeq(messages, LAMBDA m : m.session_id # sid),
               Append(messages, StoreMessage(0, sid, <<"%">>))}}

ReturnKinds ==
    [create_session |-> {"id", "none"}, get_user_sessions |-> {"rows"},
     get_session |-> {"row", "none"}, rename_session |-> {"bool"},
     delete_session |-> {"none"}, get_session_messages |-> {"rows"},
     add_message |-> {"id", "none"}, get_total_message_count |-> {"int"},
     search_sessions |-> {"rows"}, export_session_json |-> {"json"}]

\* absence, false and the empty values
Absent == {None, Bool(FALSE), Rows(<<>>), Number(0), ErrorPayload}

\* C17, as stated: every operation returns a value of its own, never raises, and
\* returns an absence, false or empty value when a store call of its raised.
C17_FailureGivesAbsence ==
    lastRet.of # ""
    => /\ lastRet.ret.kind \in ReturnKinds[lastRet.of]
       /\ lastRet.store_raised => lastRet.ret \in Absent

\* C17, amended: the same, except that search_sessions returns the name matches
\* when its select on the messages raised, and export_session_json the bundle
\* with no messages.
C17_FailureGivesAbsenceOrPartial ==
    lastRet.of # ""
    => /\ lastRet.ret.kind \in ReturnKinds[lastRet.of]
       /\ lastRet.store_raised
             => \/ lastRet.ret \in Absent
                \/ /\ lastRet.of = "search_sessions" /\ lastRet.msg_queries = 1
                   /\ \A i \in 1..Len(lastRet.ret.val) :
                         /\ lastRet.ret.val[i].user_id = lastRet.user
                         /\ Contains(Lower(lastRet.ret.val[i].session_name),
                                     escape_sql_like(Lower(lastRet.query)))
                \/ /\ lastRet.of = "export_session_json" /\ lastRet.msg_queries = 1
                   /\ lastRet.ret.val.messages = <<>>

C17_Witness ==
    /\ lastRet.of = "add_message" /\ lastRet.store_raised /\ lastRet.ret = None
    /\ Len(MessagesOf("s1")) = 1
    /\ queried = 1
    /\ "s2" \in issued /\ ~Exists("s2")

(***************************************************************************)
(* Referential integrity of the messages table.                            *)
(***************************************************************************)
\* the message rows whose session row is not in the sessions table
Orphans == {messages[i] : i \in {j \in 1..Len(messages) : ~Exists(messages[j].session_id)}}

\* C21, as stated: in every reachable state, the intermediate and failure states
\* of delete_session and the states reached with add_message running beside it
\* included, no message row is without its session row.
C21_NoOrphanMessages == Orphans = {}

\* C21, amended: a step leaves a message row without its session row only if it
\* is the insert of an add_message on a session whose row is already deleted, or
\* the session-row delete of a delete_session that another call on that session
\* overlapped; the steps of a delete_session that nothing overlaps, failing or
\* not, leave none.
C21_OrphansOnlyByLateInsert ==
    [][\A m \in Orphans' \ Orphans :
          \/ m.session_id \in raced'
          \/ /\ ~Exists(m.session_id)
             /\ \A i \in 1..Len(messages) : messages[i].id # m.id]_vars

\* a message was stored, then delete_session took it and its session, unraced
C21_Witness ==
    /\ lastRet.of = "delete_session" /\ lastRet.sid = "s1" /\ ~lastRet.store_raised
    /\ "s1" \in stale /\ raced = {}
    /\ ~Exists("s1") /\ messages = <<>>

(***************************************************************************)
(* delete_session whose messages delete fails.                             *)
(***************************************************************************)
\* the session rows the step taken removes
RowsRemoved == DOMAIN sessions \ DOMAIN sessions'

\* C23: a delete_session whose messages delete raises returns there: the session
\* delete is not pending, and the sessions table, the row of the session named
\* and those of the other sessions, is as it was, as are the messages; the session
\* delete is pending only once the session's messages are gone, and a session row
\* is removed only by the session delete of a delete_session on that session.
C23_NoRowDeleteAfterFailedMessagesDelete ==
    [][\A t \in Threads :
          /\ ~InFlight(t) /\ lastRet'.of = "delete_session" /\ lastRet'.by = t
             => /\ lastRet'.store_raised /\ lastRet'.ret = None
                /\ call'[t] = Idle
                /\ sessions' = sessions /\ messages' = messages
          /\ ~InFlight(t) /\ call'[t].op = "delete_session"
             => messages' = SelectSeq(messages, LAMBDA m : m.session_id # call'[t].sid)
          /\ RowsRemoved # {}
             => \E u \in Threads : call[u].op = "delete_session" /\ RowsRemoved = {call[u].sid}]_vars

\* delete_session has returned from a failed messages delete: the session and its
\* message are still there, beside another session
C23_Witness ==
    /\ lastRet.of = "delete_session" /\ lastRet.store_raised /\ AllReturned
    /\ Exists(lastRet.sid)
    /\ \E i \in 1..Len(messages) : messages[i].session_id = lastRet.sid
    /\ \E sid \in DOMAIN sessions : sid # lastRet.sid

(***************************************************************************)
(* What add_message's return value tells about its two writes.             *)
(***************************************************************************)
\* thread t is inside add_message at position pc
AddingAt(t, pc) == call[t].op = "add_message" /\ call[t].pc = pc

\* the step taken is the return of thread t's add_message
AddMessageReturns(t) == call[t].op = "add_message" /\ call'[t] = Idle

\* the message row of thread t's add_message is in the table after the step
RowStored(t) == \E i \in 1..Len(messages') : messages'[i].id = call[t].mid

\* the insert: the call goes on to the second write only with its row stored, and
\* a failed insert ends the call with None and both tables as they were
InsertDecides(t) ==
    AddingAt(t, "insert")
    => /\ call'[t] = [call[t] EXCEPT !.pc = "touch"]
          => messages' = Append(messages, [id |-> call[t].mid, session_id |-> call[t].sid,
                                           content |-> call[t].content,
                                           created_at |-> call[t].now])
       /\ AddMessageReturns(t)
          => /\ lastRet'.ret = None /\ lastRet'.store_raised
             /\ sessions' = sessions /\ messages' = messages

\* the id is returned only from the second write having gone through, which set
\* updated_at on the session row if there is one
IdAfterBothWrites(t) ==
    AddMessageReturns(t) /\ lastRet'.ret # None
    => /\ lastRet'.ret = Id(call[t].mid)
       /\ AddingAt(t, "touch") /\ ~lastRet'.store_raised
       /\ Exists(call[t].sid) => sessions'[call[t].sid].updated_at = call[t].now

\* C22, as stated: add_message returns an id only if its insert and its
\* updated_at write both went through; a failed insert leaves the session row
\* unchanged; and whenever it returns None no message row of that call is stored.
C22_AllOrNothing ==
    [][\A t \in Threads :
          /\ InsertDecides(t) /\ IdAfterBothWrites(t)
          /\ AddMessageReturns(t) /\ lastRet'.ret = None => ~RowStored(t)]_vars

\* C22, amended: as stated, but None tells that no row is stored only when it is
\* the insert that failed; when the updated_at write failed, None is returned
\* with the session row unchanged and the message table as the insert left it.
C22_IdOnlyAfterBothWrites ==
    [][\A t \in Threads :
          /\ InsertDecides(t) /\ IdAfterBothWrites(t)
          /\ AddMessageReturns(t) /\ lastRet'.ret = None /\ AddingAt(t, "insert")
             => ~RowStored(t)
          /\ AddMessageReturns(t) /\ lastRet'.ret = None /\ AddingAt(t, "touch")
             => lastRet'.store_raised /\ sessions' = sessions /\ messages' = messages]_vars

\* add_message has returned None with its message row stored
C22_Witness ==
    /\ lastRet.of = "add_message" /\ lastRet.ret = None /\ lastRet.store_raised
    /\ lastRet.sid \in stale
    /\ \E i \in 1..Len(messages) : messages[i].session_id = lastRet.sid

(***************************************************************************)
(* Properties of the audit log.                                            *)
(***************************************************************************)
\* ids of the events whose background write has ended without a row
Dropped == {i \in 1..logged : (\A w \in writers : w.id # i) /\ (\A r \in audit : r.id # i)}

\* C18: log_event returns None at once, leaving its caller outside any call and
\* the audit table as it was, whatever state earlier background writes are in;
\* and no step of a background thread, failing or not, touches any caller's call.
C18_LogEventDoesNotWait ==
    [][/\ \A t \in Threads, sid \in SessionIds, e \in EventTypes, p \in Payloads :
             LogEvent(t, sid, e, p)
             => /\ lastRet' = [of |-> "log_event", by |-> t, sid |-> sid, ret |-> None,
                               store_raised |-> FALSE]
                /\ call'[t] = Idle
                /\ audit' = audit
                /\ audit_table => \E w \in writers' \ writers : w.pc = "start"
       /\ LogInBackground => call' = call /\ lastRet'.ret.kind # "raised"]_vars

C18_Witness ==
    /\ lastRet.of = "rename_session" /\ lastRet.ret = Bool(TRUE)
    /\ logged = 1 /\ Dropped = {1}
    /\ audit = {}
    /\ AllReturned

\* the audit rows written by the thread of the i-th enqueuing call
AuditRowsOf(i) == {r \in audit : r.id = i}

\* that thread has ended
Ended(i) == i <= logged /\ \A w \in writers : w.id # i

\* at most one row, carrying what the call was given, and never beside a logged failure
AtMostOneOutcome(i) ==
    /\ Cardinality(AuditRowsOf(i)) <= 1
    /\ \A r \in AuditRowsOf(i) :
          /\ Event(r.session_id, r.event_type, r.payload) = enqueued[i]
          /\ i \notin audit_errors

\* exactly one of the two outcomes has happened
OneOutcome(i) ==
    /\ Ended(i) /\ AtMostOneOutcome(i)
    /\ AuditRowsOf(i) = {} <=> i \in audit_errors

\* C24: in a process that does not end, every log_event call that finds an audit
\* table configured leads to exactly one outcome, which then stays: one audit row
\* with the session id, event type and payload the call was given, or one logged
\* failure and no row; at no time has a call more than one row.
C24_ExactlyOneOutcome ==
    \A i \in 1..MaxAudit :
        /\ [](i <= logged => AtMostOneOutcome(i))
        /\ (i <= logged) ~> []OneOutcome(i)

\* both outcomes are reached: a row for the payload given, or a logged failure
C24_Witness ==
    /\ logged = 1 /\ OneOutcome(1) /\ AllReturned
    /\ 1 \in audit_errors /\ audit = {}
    /\ enqueued[1].payload = "p2"

\* C20: no step removes or changes a row of the audit table, and the step of
\* delete_session that deletes the session row leaves the session's audit rows.
C20_AuditOnlyGrows ==
    [][/\ audit \subseteq audit'
       /\ \A t \in Threads :
             DeleteSessionRowOk(t)
             => {r \in audit' : r.session_id = call[t].sid}
                   = {r \in audit : r.session_id = call[t].sid}]_vars

C20_Witness ==
    /\ lastRet.of = "delete_session" /\ lastRet.sid = "s1" /\ ~lastRet.store_raised
    /\ ~Exists("s1") /\ "s1" \in issued
    /\ \E r \in audit : r.session_id = "s1"

(***************************************************************************)
(* Properties of the LLM client adapter.                                   *)
(***************************************************************************)
\* the payload encodes a safety block: its error code is content_filter
IsSafetyBlock(body) ==
    /\ "error" \in DOMAIN body
    /\ "code" \in DOMAIN body.error
    /\ body.error.code = "content_filter"

\* the nested filter result carries the jailbreak flag, and it is true
JailbreakFlagged(body) ==
    /\ "innererror" \in DOMAIN body.error
    /\ "content_filter_result" \in DOMAIN body.error.innererror
    /\ "jailbreak" \in DOMAIN body.error.innererror.content_filter_result
    /\ "filtered" \in DOMAIN body.error.innererror.content_filter_result.jailbreak
    /\ body.error.innererror.content_filter_result.jailbreak.filtered

\* call c ended because its request was rejected with a safety block
Rejected(c) ==
    /\ c.pc = "raised" /\ c.stage = "request"
    /\ c.fault = "BadRequestError"
    /\ IsSafetyBlock(c.body)

BlockKind(body) ==
    IF JailbreakFlagged(body) THEN "PromptInjectionBlocked" ELSE "ContentPolicyBlocked"

\* C6: a request rejected with a safety block raises PromptInjectionBlocked when
\* the jailbreak flag is true and ContentPolicyBlocked when it is false or absent,
\* in stream_chat and in complete_chat alike.
C6_SafetyBlockClassified ==
    /\ Rejected(stream) => stream.raised.kind = BlockKind(stream.body)
    /\ Rejected(complete) => complete.raised.kind = BlockKind(complete.body)
    /\ (Rejected(stream) /\ Rejected(complete) /\ stream.body = complete.body)
          => stream.raised.kind = complete.raised.kind

C6_Witness ==
    /\ Rejected(stream) /\ Rejected(complete)
    /\ stream.body = complete.body
    /\ JailbreakFlagged(stream.body)
    /\ "hate" \in DOMAIN stream.body.error.innererror.content_filter_result
    /\ complete.raised.kind = "PromptInjectionBlocked"

\* a mid-drain fault leaves stream_chat as StreamProcessingError wrapping it
DrainFaultWrapped ==
    (stream.pc = "raised" /\ stream.stage = "drain")
       => /\ stream.raised.kind = "StreamProcessingError"
          /\ stream.raised.cause = stream.fault

\* C7, as stated: a failed request raises a classified error before any fragment;
\* a mid-drain fault raises StreamProcessingError wrapping the cause; nothing is
\* yielded after the error.
C7_ClassifiedBeforeFragments ==
    [][/\ ((stream.pc = "raised" /\ stream.stage = "request")
             => stream.raised.kind \in ClassifiedKinds /\ stream.yielded = <<>>)'
       /\ DrainFaultWrapped'
       /\ stream.pc = "raised" => stream'.yielded = stream.yielded]_vars

\* C7, amended: a failed request raises, before any fragment, the classified error
\* of a safety block, a missing deployment or a timeout, and otherwise the
\* provider's own error; the rest as stated.
C7_ErrorBeforeFragments ==
    [][/\ ((stream.pc = "raised" /\ stream.stage = "request")
             => /\ stream.yielded = <<>>
                /\ IF Rejected(stream) THEN stream.raised.kind = BlockKind(stream.body)
                   ELSE IF stream.fault = "NotFoundError"
                        THEN stream.raised.kind = "DeploymentNotFound"
                   ELSE IF stream.fault = "TimeoutError"
                        THEN stream.raised.kind = "RequestTimeout"
                   ELSE stream.raised = Raw(stream.fault))'
       /\ DrainFaultWrapped'
       /\ stream.pc = "raised" => stream'.yielded = stream.yielded]_vars

C7_Witness ==
    /\ stream.pc = "raised" /\ stream.stage = "drain"
    /\ stream.fault = "OtherError"
    /\ Len(stream.yielded) = 1
    /\ stream.events # <<>>

\* C8, as stated: a deadline exceeded in stream_chat or complete_chat, at the
\* request or during the drain, reaches the caller as RequestTimeout carrying the
\* configured timeout.
C8_TimeoutIsRequestTimeout ==
    /\ (stream.pc = "raised" /\ stream.fault = "TimeoutError")
          => stream.raised.kind = "RequestTimeout" /\ stream.raised.timeout = stream.timeout
    /\ (complete.pc = "raised" /\ complete.fault = "TimeoutError")
          => complete.raised.kind = "RequestTimeout"
             /\ complete.raised.timeout = complete.timeout

\* call c ended at its request on a provider error that is no safety block, no
\* missing deployment and no timeout
Unclassified(c) ==
    /\ c.pc = "raised" /\ c.stage = "request"
    /\ \/ c.fault = "OtherError"
       \/ c.fault = "BadRequestError" /\ ~IsSafetyBlock(c.body)

\* C11: a provider error on the request that is not a safety block, a missing
\* deployment or a timeout leaves stream_chat and complete_chat as the same error,
\* not wrapped: no cause, no message of the adapter's.
C11_UnclassifiedPropagates ==
    /\ Unclassified(stream) => stream.raised = Raw(stream.fault) /\ stream.yielded = <<>>
    /\ Unclassified(complete) => complete.raised = Raw(complete.fault)

C11_Witness ==
    /\ Unclassified(stream) /\ stream.fault = "BadRequestError"
    /\ "error" \in DOMAIN stream.body /\ stream.body.error = [code |-> "invalid_request_error"]
    /\ Unclassified(complete) /\ complete.fault = "OtherError"
    /\ complete.raised.kind = "OtherError"

\* a part that carries text: a dict with a "text" entry, or a bare string
RECURSIVE TextOfParts(_)
TextOfParts(items) ==
    IF items = <<>> THEN <<>>
    ELSE (IF Head(items).has_text THEN Head(items).text ELSE <<>>) \o TextOfParts(Tail(items))

\* C9, as stated: _content_to_text gives a string itself, the concatenation of the
\* text of a list's text parts (nothing for a list without any), and the empty
\* string for None.
C9_NormalizedAsSpecified ==
    normalized.done =>
       normalized.text = IF content.t = "str" THEN content.s
                         ELSE IF content.t = "list" THEN TextOfParts(content.items)
                         ELSE <<>>

\* C10: complete_chat returns the empty string and raises nothing when the
\* response holds no choices.
C10_NoChoicesGivesEmpty ==
    (complete.stage = "response" /\ complete.choices = <<>>)
       => /\ complete.pc = "returned"
          /\ complete.result = <<>>
          /\ complete.raised = NoError

C10_Witness ==
    /\ complete.stage = "response" /\ complete.choices = <<>>
    /\ complete.pc = "returned"
    /\ complete.result = <<>>

(***************************************************************************)
(* Properties of the session state.                                        *)
(***************************************************************************)
\* the step taken is an activate_assistant or a queue_action_collapse call
ActivatesOrQueues ==
    \/ \E kind \in Kinds, rerun \in BOOLEAN : ActivateAssistant(kind, rerun)
    \/ \E action_type \in ActionTypes, data \in Data : QueueActionCollapse(action_type, data)

\* C25: from the state initialize_session_state leaves, under every sequence of
\* activate_assistant, queue_action_collapse, handle_pending_action_collapses and
\* maybe_auto_open_assistant calls, the email builder and the meeting builder are
\* never both shown, and each activate_assistant and queue_action_collapse call
\* leaves the tool picker hidden.
C25_OneBuilderAndPickerHidden ==
    /\ [](~(show_email_builder /\ show_meeting_builder))
    /\ [][ActivatesOrQueues => ~show_tool_picker']_vars

\* the email builder is shown alone, opened over a queued action
C25_Witness ==
    /\ show_email_builder /\ ~show_meeting_builder /\ ~show_tool_picker
    /\ pending_action_collapses # <<>>
    /\ recent_actions # <<>>

\* what handle_pending_action_collapses is to leave in recent_actions: the pending
\* entries in queue order, then the recent ones, up to the limit
Merged(k) ==
    IF k <= Len(pending_action_collapses) THEN pending_action_collapses[k]
    ELSE recent_actions[k - Len(pending_action_collapses)]

\* C26: recent_actions never holds more than RECENT_ACTION_LIMIT entries; each
\* handle_pending_action_collapses call leaves pending_action_collapses empty and
\* recent_actions holding the pending entries in queue order, then the entries
\* that were recent, cut after the limit.
C26_RecentActionsBounded ==
    /\ [](Len(recent_actions) <= RECENT_ACTION_LIMIT)
    /\ [][HandlePendingActionCollapses
          => /\ pending_action_collapses' = <<>>
             /\ \/ pending_action_collapses = <<>> /\ recent_actions' = recent_actions
                \/ /\ Len(recent_actions') <= RECENT_ACTION_LIMIT
                   /\ \/ Len(recent_actions') = RECENT_ACTION_LIMIT
                      \/ Len(recent_actions') =
                            Len(pending_action_collapses) + Len(recent_actions)
                   /\ \A k \in 1..Len(recent_actions') : recent_actions'[k] = Merged(k)]_vars

\* six actions were queued and handled in two rounds: five are kept, the newest
\* first, and the oldest was dropped
C26_Witness ==
    /\ queued = MaxQueued /\ pending_action_collapses = <<>>
    /\ Len(recent_actions) = RECENT_ACTION_LIMIT
    /\ recent_actions[1].type = "meeting" /\ recent_actions[2].type = "email"
    /\ recent_actions[1].timestamp > recent_actions[RECENT_ACTION_LIMIT].timestamp

\* the calls that got a client from get_azure_client
Resolved == {c \in {stream, complete} : c.client # 0}

\* C19, as stated: over the invocations of stream_chat and complete_chat, also
\* when their first invocations overlap or follow a failed resolution, at most one
\* client is constructed and every invocation uses that one.
C19_ClientBuiltOnce ==
    /\ built <= 1
    /\ \A c \in Resolved : c.client = client

====
